---- MODULE Spec2Model ----
(***************************************************************************)
(* femto: a terminal text viewer (src/main.rs).                            *)
(*                                                                         *)
(* The model covers Buffer::from / Display (segmentation of a text into    *)
(* lines of cells and its serialisation), Editor::draw (cursor movement,   *)
(* the cursor-locating walk with its restart loop, the choice between a    *)
(* cursor-only move and a full repaint, the painted bytes) and the event   *)
(* loop of main.                                                           *)
(*                                                                         *)
(* Indices are 0-based as in the source (cursor.y, offset, columns);       *)
(* TLA+ sequences are 1-based, so line l of the buffer is                  *)
(* buffer.line[l + 1].                                                     *)
(***************************************************************************)
EXTENDS Integers, Sequences, FiniteSets

\* ------------------------------------------------------------------------
\* Bounds of the model
\* ------------------------------------------------------------------------

\* longest text (in code points) a file holds
MaxLen == 3

\* largest terminal width / height reported by the terminal
MaxWidth == 2

MaxHeight == 3

\* largest terminal height where the layout alone is explored
MaxRows == 4

\* most variation selectors that follow one letter in the long-cluster texts
MaxMarks == 64

\* most leading consonants in the long-cluster texts
MaxJamo == 128

\* ------------------------------------------------------------------------
\* Text: code points, their UTF-8 bytes, display widths, grapheme clusters
\* ------------------------------------------------------------------------

\* "a"  U+0061, 1 byte,  width 1
\* "W"  U+3042, 3 bytes, width 2 (a full-width letter)
\* "M"  U+0301, 2 bytes, width 0 (a combining mark, Grapheme_Extend)
\* "V"  U+E0100, 4 bytes, width 0 (a variation selector, Grapheme_Extend)
\* "L"  U+1100, 3 bytes, width 2 (a Hangul leading consonant; a run of them
\*      is one cluster), in the long-cluster texts only
\* "LF" U+000A, "CR" U+000D (controls; CR LF is one cluster)
Chars == {"a", "W", "M", "V", "LF", "CR"}

\* The code points of the texts the navigation is explored on.  CR is left
\* to the texts of SpecLoad: a CR or CR LF cluster is a line terminator of
\* width 1 like LF, and differs from it only in its bytes.  The variation
\* selector is left to them too: it extends a cluster as the combining
\* mark does, with more bytes.
NavChars == {"a", "W", "M", "LF"}

Utf8(ch) ==
    CASE ch = "a"  -> <<97>>
      [] ch = "W"  -> <<227, 129, 130>>
      [] ch = "M"  -> <<204, 129>>
      [] ch = "V"  -> <<243, 160, 132, 128>>
      [] ch = "L"  -> <<225, 132, 128>>
      [] ch = "LF" -> <<10>>
      [] ch = "CR" -> <<13>>

CharWidth(ch) ==
    CASE ch = "a"  -> 1
      [] ch = "W"  -> 2
      [] ch = "M"  -> 0
      [] ch = "V"  -> 0
      [] ch = "L"  -> 2
      [] ch = "LF" -> 0
      [] ch = "CR" -> 0

Texts(A) == UNION {[1..n -> A] : n \in 0..MaxLen}

\* str::as_bytes: the bytes of the code points in order (taken by halves,
\* which keeps the evaluation shallow on long texts)
RECURSIVE as_bytes(_)
as_bytes(s) ==
    IF s = <<>> THEN <<>>
    ELSE IF Len(s) = 1 THEN Utf8(s[1])
    ELSE LET h == Len(s) \div 2
         IN  as_bytes(SubSeq(s, 1, h)) \o as_bytes(SubSeq(s, h + 1, Len(s)))

\* UnicodeWidthStr::width: the sum of the widths of the code points
RECURSIVE width(_)
width(s) ==
    IF s = <<>> THEN 0
    ELSE IF Len(s) = 1 THEN CharWidth(s[1])
    ELSE LET h == Len(s) \div 2
         IN  width(SubSeq(s, 1, h)) + width(SubSeq(s, h + 1, Len(s)))

\* number of leading Grapheme_Extend code points of s
RECURSIVE Extenders(_)
Extenders(s) ==
    IF s # <<>> /\ Head(s) \in {"M", "V"} THEN 1 + Extenders(Tail(s)) ELSE 0

\* number of leading Hangul leading consonants of s
LeadingJamo(s) == Cardinality({k \in 1..Len(s) : \A i \in 1..k : s[i] = "L"})

\* length of the first extended grapheme cluster of a non-empty text:
\* CR LF is unbroken, a control is a cluster of its own, a run of Hangul
\* leading consonants is unbroken, and anything but a control takes the
\* Grapheme_Extend code points that follow it
ClusterLen(s) ==
    CASE Head(s) = "CR" -> IF Len(s) > 1 /\ s[2] = "LF" THEN 2 ELSE 1
      [] Head(s) = "LF" -> 1
      [] Head(s) = "L"  -> LET k == LeadingJamo(s)
                           IN  k + Extenders(SubSeq(s, k + 1, Len(s)))
      [] OTHER          -> 1 + Extenders(Tail(s))

RECURSIVE graphemes(_)
graphemes(s) ==
    IF s = <<>> THEN <<>>
    ELSE LET n == ClusterLen(s)
         IN  <<SubSeq(s, 1, n)>> \o graphemes(SubSeq(s, n + 1, Len(s)))

is_linebreak(str) == str \in {<<"CR", "LF">>, <<"LF">>, <<"CR">>}

\* `as u8`
U8(n) == n % 256

\* ------------------------------------------------------------------------
\* LineBr and Buffer
\* ------------------------------------------------------------------------

LineBrDefault == [data |-> <<>>, span |-> <<>>, cols |-> 0]

\* last.data.extend(..); last.span.push((len, w)); last.cols += w
PushCell(lbr, bytes, w) ==
    [data |-> lbr.data \o bytes,
     span |-> Append(lbr.span, <<U8(Len(bytes)), U8(w)>>),
     cols |-> lbr.cols + w]

\* PushSegm that keeps a line terminator out of the line's data
PushSegm_DropTerminator(line, segm) ==
    LET n    == Len(line)
        last == line[n]
    IN  IF ~is_linebreak(segm)
        THEN [line EXCEPT ![n] = PushCell(last, as_bytes(segm), width(segm))]
        ELSE Append([line EXCEPT ![n] = PushCell(last, <<>>, 1)], LineBrDefault)

\* the body of the loop of Buffer::from for one cluster
PushSegm(line, segm) ==
    LET n    == Len(line)
        last == line[n]
    IN  IF ~is_linebreak(segm)
        THEN [line EXCEPT ![n] = PushCell(last, as_bytes(segm), width(segm))]
        ELSE Append([line EXCEPT ![n] = PushCell(last, as_bytes(segm), 1)],
                    LineBrDefault)

RECURSIVE FromLoop(_, _)
FromLoop(line, segms) ==
    IF segms = <<>> THEN line
    ELSE FromLoop(PushSegm(line, Head(segms)), Tail(segms))

\* impl From<&str> for Buffer
BufferFrom(text) ==
    LET line == FromLoop(<<LineBrDefault>>, graphemes(text))
        n    == Len(line)
    IN  [line |-> [line EXCEPT ![n] = PushCell(line[n], <<>>, 1)]]

rows(buf) == Len(buf.line)

cols(buf, row) == buf.line[row + 1].cols

\* LineBr::span: the byte range and the column range of every cell
RECURSIVE SpanScan(_, _, _)
SpanScan(sp, b, s) ==
    IF sp = <<>> THEN <<>>
    ELSE LET next == Head(sp)
             item == [bin |-> [start |-> b, end |-> b + next[1]],
                      seg |-> [start |-> s, end |-> s + next[2]]]
         IN  <<item>> \o SpanScan(Tail(sp), item.bin.end, item.seg.end)

span(lbr) == SpanScan(lbr.span, 0, 0)

\* impl fmt::Display for Buffer
RECURSIVE DisplayLines(_)
DisplayLines(line) ==
    IF line = <<>> THEN <<>> ELSE Head(line).data \o DisplayLines(Tail(line))

Display(buf) == DisplayLines(buf.line)

\* ------------------------------------------------------------------------
\* Editor::draw, the pieces of its body
\* ------------------------------------------------------------------------

\* the actions an unmodified key maps to
KeyActions == {"Full", "Up", "Down", "Left", "Right"}

Sizes == {[width |-> w, height |-> h] : w \in 1..MaxWidth, h \in 1..MaxHeight}

Min(a, b) == IF a <= b THEN a ELSE b

Max(a, b) == IF a >= b THEN a ELSE b

\* MoveCursor whose Down may step past the last line
MoveCursor_DownPastEnd(a, c, buf) ==
    CASE a = "Up" /\ 0 < c.y                -> [c EXCEPT !.y = c.y - 1]
      [] a = "Down" /\ c.y < rows(buf)      -> [c EXCEPT !.y = c.y + 1]
      [] a \in {"Right", "Left"}            -> [c EXCEPT !.x = Min(c.x, cols(buf, c.y) - 1)]
      [] OTHER                              -> c

\* the `match action` that moves the logical cursor before the walk
MoveCursor(a, c, buf) ==
    CASE a = "Up" /\ 0 < c.y                -> [c EXCEPT !.y = c.y - 1]
      [] a = "Down" /\ c.y + 1 < rows(buf)  -> [c EXCEPT !.y = c.y + 1]
      [] a \in {"Right", "Left"}            -> [c EXCEPT !.x = Min(c.x, cols(buf, c.y) - 1)]
      [] OTHER                              -> c

\* "Step1: cursor", the offset the walk starts from
StartOffset(off, c, scr) ==
    LET o == Min(off, c.y)
    IN  IF c.y + 1 >= scr.height THEN Max(o, c.y + 1 - scr.height) ELSE o

\* SpecialCase that also takes a shorter (or no) previous line
SpecialCase_AtMost(col_pre, scr) == col_pre <= scr.width + 1

\* "special case": the previous line filled exactly one screen row
SpecialCase(col_pre, scr) == col_pre = scr.width + 1

\* the rows are used up
OffScreen(pos, scr) == pos.y >= scr.height

\* pos.x += seg.len(); at the right edge pos moves to the start of the
\* next row (wrapped)
Advance(pos, seg, scr) ==
    LET x == pos.x + (seg.end - seg.start)
    IN  IF x >= scr.width
        THEN [pos |-> [x |-> 0, y |-> pos.y + 1], wrapped |-> TRUE]
        ELSE [pos |-> [x |-> x, y |-> pos.y], wrapped |-> FALSE]

\* the guard of the Action::Right arm
RightMoves(fix, cx, lbr) == ~fix /\ cx + 1 < lbr.cols

\* the guard of the Action::Left arm
LeftMoves(cx) == 0 < cx

\* The loop over the cells of line l in the cursor walk, from cell c
\* (1-based) on.  st carries pos, pos_pre, sst_pre, fix and cursor.x (cx);
\* w carries cursor.y and the action.  The result says whether
\* `break 'outer` was taken (found, with its value cur), and gives pos and
\* cursor.x as the loop leaves them.
RECURSIVE WalkCells(_, _, _, _, _, _, _)
WalkCells(lbr, sp, l, c, st, w, scr) ==
    LET seg   == sp[c].seg
        hit   == l = w.y /\ seg.start <= st.cx /\ st.cx < seg.end
        right == hit /\ w.action = "Right" /\ RightMoves(st.fix, st.cx, lbr)
        left  == hit /\ w.action = "Left" /\ LeftMoves(st.cx)
        st1   == IF right THEN [st EXCEPT !.cx = seg.end, !.fix = TRUE] ELSE st
        adv   == Advance(st1.pos, seg, scr)
        st2   == [st1 EXCEPT !.pos = adv.pos, !.pos_pre = st1.pos,
                             !.sst_pre = seg.start]
    IN  IF seg.start = seg.end
        THEN WalkCells(lbr, sp, l, c + 1, st, w, scr)
        ELSE IF left
        THEN [found |-> TRUE, cur |-> st.pos_pre, pos |-> st.pos, cx |-> st.sst_pre]
        ELSE IF hit /\ ~right
        THEN [found |-> TRUE, cur |-> st.pos, pos |-> st.pos, cx |-> st.cx]
        ELSE IF c = Len(sp)
        THEN [found |-> FALSE, cur |-> st1.pos, pos |-> st1.pos, cx |-> st1.cx]
        ELSE IF adv.wrapped /\ OffScreen(adv.pos, scr)
        THEN [found |-> FALSE, cur |-> adv.pos, pos |-> adv.pos, cx |-> st1.cx]
        ELSE WalkCells(lbr, sp, l, c + 1, st2, w, scr)

\* The loop over the lines in the cursor walk: one pass of the `'outer` loop
\* from line l on, with pos at the start of line l.
RECURSIVE WalkLines(_, _, _, _, _, _, _)
WalkLines(buf, l, pos, col_pre, cx, w, scr) ==
    IF l >= rows(buf) THEN [found |-> FALSE, cur |-> pos, pos |-> pos, cx |-> cx]
    ELSE LET lbr  == buf.line[l + 1]
             pos1 == IF SpecialCase(col_pre, scr) THEN [pos EXCEPT !.y = pos.y - 1] ELSE pos
             r    == WalkCells(lbr, span(lbr), l, 1,
                               [pos |-> pos1, pos_pre |-> pos, sst_pre |-> 0,
                                fix |-> FALSE, cx |-> cx],
                               w, scr)
             next == [x |-> 0, y |-> r.pos.y + 1]
         IN  IF r.found THEN r
             ELSE IF l = w.y /\ w.action \in {"Up", "Down"}
             THEN [found |-> TRUE, cur |-> r.pos, pos |-> r.pos, cx |-> r.cx]
             ELSE IF OffScreen(next, scr)
             THEN [found |-> FALSE, cur |-> next, pos |-> next, cx |-> r.cx]
             ELSE WalkLines(buf, l + 1, next, lbr.cols, r.cx, w, scr)

\* one pass of the `'outer` loop of draw, started at offset off
Walk(buf, off, c, a, scr) ==
    WalkLines(buf, off, [x |-> 0, y |-> 0], 0, c.x, [y |-> c.y, action |-> a], scr)

\* "Step2: output", the loop over the cells of a line from cell c on: the
\* result is eol, the number of bytes of the line to print, and pos
RECURSIVE PaintCells(_, _, _, _, _)
PaintCells(sp, c, pos, eol, scr) ==
    LET adv == Advance(pos, sp[c].seg, scr)
    IN  IF c = Len(sp) THEN [pos |-> pos, eol |-> eol]
        ELSE IF adv.wrapped /\ OffScreen(adv.pos, scr)
        THEN [pos |-> adv.pos, eol |-> eol]
        ELSE PaintCells(sp, c + 1, adv.pos, sp[c].bin.end, scr)

\* "Step2: output", the loop over the lines from line l on
RECURSIVE PaintLines(_, _, _, _, _)
PaintLines(buf, l, pos, col_pre, scr) ==
    IF l >= rows(buf) THEN <<>>
    ELSE LET lbr  == buf.line[l + 1]
             pos1 == IF SpecialCase(col_pre, scr) THEN [pos EXCEPT !.y = pos.y - 1] ELSE pos
             r    == PaintCells(span(lbr), 1, pos1, 0, scr)
             next == [x |-> 0, y |-> r.pos.y + 1]
             head == SubSeq(lbr.data, 1, r.eol)
         IN  IF OffScreen(next, scr) THEN head
             ELSE head \o <<13, 10>> \o PaintLines(buf, l + 1, next, lbr.cols, scr)

Paint(buf, off, scr) == PaintLines(buf, off, [x |-> 0, y |-> 0], 0, scr)

\* "Step2: output", the loop over the cells of line l from cell c on, as
\* the points it passes: for every cell the loop reaches, pos when the cell
\* is reached and whether the loop goes on to `eol = str.end` for it (then
\* the cell's bytes are printed)
RECURSIVE PaintCellPoints(_, _, _, _, _)
PaintCellPoints(sp, l, c, pos, scr) ==
    LET adv  == Advance(pos, sp[c].seg, scr)
        here(printed) == [l |-> l, c |-> c, pos |-> pos, printed |-> printed]
    IN  IF c = Len(sp) THEN {here(FALSE)}
        ELSE IF adv.wrapped /\ OffScreen(adv.pos, scr)
        THEN {here(FALSE)}
        ELSE {here(TRUE)}
                \cup PaintCellPoints(sp, l, c + 1, adv.pos, scr)

\* "Step2: output", the loop over the lines from line l on, as the points
\* it passes
RECURSIVE PaintLinePoints(_, _, _, _, _)
PaintLinePoints(buf, l, pos, col_pre, scr) ==
    IF l >= rows(buf) THEN {}
    ELSE LET lbr  == buf.line[l + 1]
             pos1 == IF SpecialCase(col_pre, scr) THEN [pos EXCEPT !.y = pos.y - 1] ELSE pos
             r    == PaintCells(span(lbr), 1, pos1, 0, scr)
             next == [x |-> 0, y |-> r.pos.y + 1]
             pts  == PaintCellPoints(span(lbr), l, 1, pos1, scr)
         IN  IF OffScreen(next, scr) THEN pts
             ELSE pts \cup PaintLinePoints(buf, l + 1, next, lbr.cols, scr)

PaintPoints(buf, off, scr) == PaintLinePoints(buf, off, [x |-> 0, y |-> 0], 0, scr)

\* the restart loop of draw (`let cur = 'outer: loop { .. }`): passes from
\* offset off on, each failed pass followed by offset += 1; all = true.
\* A pass keeps the cursor.x a Right wrote.  From offset = rows on a pass
\* visits no line, so the loop never ends: the result is then not found,
\* with the first such offset.
RECURSIVE RestartLoop(_, _, _, _, _, _)
RestartLoop(buf, off, c, a, scr, all) ==
    LET r == Walk(buf, off, c, a, scr)
    IN  IF r.found
        THEN [found |-> TRUE, offset |-> off, cur |-> r.cur, cx |-> r.cx, all |-> all]
        ELSE IF off >= rows(buf)
        THEN [found |-> FALSE, offset |-> off, cur |-> r.cur, cx |-> r.cx, all |-> TRUE]
        ELSE RestartLoop(buf, off + 1, [c EXCEPT !.x = r.cx], a, scr, TRUE)

\* Repaint that sees a raised offset only
Repaint_OnlyWhenRaised(all, old_offset, new_offset) == all \/ old_offset < new_offset

\* Repaint that overlooks a changed offset
Repaint_IgnoreOffset(all, old_offset, new_offset) == all

\* `all` when the restart loop has ended: a full repaint is due
Repaint(all, old_offset, new_offset) == all \/ old_offset # new_offset

\* StoredOffset that never stores
StoredOffset_Stale(old_offset, new_offset) == old_offset

\* self.offset when the restart loop has ended
StoredOffset(old_offset, new_offset) ==
    IF old_offset # new_offset THEN new_offset ELSE old_offset

\* the code point a UTF-8 sequence that starts with byte b encodes
Decode(b) ==
    CASE b = 97  -> "a"
      [] b = 227 -> "W"
      [] b = 204 -> "M"
      [] b = 243 -> "V"
      [] b = 225 -> "L"
      [] b = 10  -> "LF"
      [] b = 13  -> "CR"

\* std::fs::read_to_string: the code points of a file of valid UTF-8, each
\* decoded from the sequence its first byte starts (a byte 128..191 goes on
\* a sequence); the bytes are cut at the start of a code point near the
\* middle, which keeps the evaluation shallow on long files
RECURSIVE read_to_string(_)
read_to_string(bytes) ==
    LET n    == Len(bytes)
        cuts == {i \in 2..n : bytes[i] < 128 \/ bytes[i] >= 192}
        late == {i \in cuts : i > n \div 2}
        m    == IF late # {} THEN CHOOSE i \in late : \A j \in late : i <= j
                ELSE CHOOSE i \in cuts : \A j \in cuts : j <= i
    IN  IF n = 0 THEN <<>>
        ELSE IF cuts = {} THEN <<Decode(bytes[1])>>
        ELSE read_to_string(SubSeq(bytes, 1, m - 1)) \o read_to_string(SubSeq(bytes, m, n))

\* ------------------------------------------------------------------------
\* State
\* ------------------------------------------------------------------------

VARIABLES
    file,         \* the file at opts.path: whether it exists, and its bytes
    buffer,       \* Editor.buffer
    cursor,       \* Editor.cursor (x: column, y: line)
    offset,       \* Editor.offset
    scrsiz,       \* Editor.scrsiz
    pc,           \* where main is: "load", "screen", "idle" (event::read),
                  \* "hung" (draw never returns), "exit"
    event,        \* the last event main handled
    walk_offset,  \* draw: the local `offset` when the restart loop was left
    cur,          \* the point of the last cursor::MoveTo
    frame         \* what the last call of draw sent to the terminal: "none",
                  \* "cursor" (MoveTo only) or "full" (Clear, Print(out), MoveTo)

vars == <<file, buffer, cursor, offset, scrsiz, pc, event, walk_offset, cur, frame>>

\* no file at the path, or a file of valid UTF-8 over the code points A
Files(A) == {[exists |-> FALSE, bytes |-> <<>>]}
                \cup {[exists |-> TRUE, bytes |-> as_bytes(t)] : t \in Texts(A)}

NoFrame == "none"

\* Editor::default() and the start of main, with the file one of F
Start(F) ==
    /\ file \in F
    /\ buffer = BufferFrom(<<>>)
    /\ cursor = [x |-> 0, y |-> 0]
    /\ offset = 0
    /\ scrsiz = [width |-> 0, height |-> 0]
    /\ pc = "load"
    /\ event = "Start"
    /\ walk_offset = 0
    /\ cur = [x |-> 0, y |-> 0]
    /\ frame = NoFrame

Init == Start(Files(NavChars))

\* ------------------------------------------------------------------------
\* Operations
\* ------------------------------------------------------------------------

\* main: if path.exists() { editor.load(path)? }
Load ==
    /\ pc = "load"
    /\ buffer' = IF file.exists THEN BufferFrom(read_to_string(file.bytes)) ELSE buffer
    /\ pc' = "screen"
    /\ event' = "Load"
    /\ UNCHANGED <<file, cursor, offset, scrsiz, walk_offset, cur, frame>>

\* Editor::draw called with vec![a]; sz is the size carried by
\* Action::Resize.  Either the restart loop ends and draw returns, or it
\* never ends.
Draw(a, sz) ==
    LET resized == a = "Resize" /\ scrsiz # sz
        scr     == IF resized THEN sz ELSE scrsiz
        c       == MoveCursor(a, cursor, buffer)
    IN  \E r \in {RestartLoop(buffer, StartOffset(offset, c, scr), c, a, scr,
                              a = "Full" \/ resized)} :
            /\ scrsiz' = scr
            /\ cursor' = [c EXCEPT !.x = r.cx]
            /\ walk_offset' = r.offset
            /\ IF r.found
               THEN /\ offset' = StoredOffset(offset, r.offset)
                    /\ cur' = r.cur
                    /\ frame' = IF Repaint(r.all, offset, r.offset)
                                THEN "full" ELSE "cursor"
                    /\ pc' = "idle"
               ELSE /\ pc' = "hung"
                    /\ UNCHANGED <<offset, cur, frame>>
            /\ UNCHANGED <<file, buffer>>

\* main: Screen::init()?; editor.draw(vec![Action::Resize(Screen::size())])
FirstDraw ==
    /\ pc = "screen"
    /\ event' = "Resize"
    /\ \E sz \in Sizes : Draw("Resize", sz)

\* main loop: an unmodified key; the arrows map to their action, any other
\* key to Action::Full
KeyEvent(a) ==
    /\ pc = "idle"
    /\ a \in KeyActions
    /\ event' = a
    /\ Draw(a, scrsiz)

\* main loop: Event::Resize(cols, rows)
ResizeEvent(sz) ==
    /\ pc = "idle"
    /\ event' = "Resize"
    /\ Draw("Resize", sz)

\* main loop: an event that pushes no action (Ctrl with a key other than
\* c and s, a key with other modifiers, any other event): draw returns at
\* once
IgnoredEvent ==
    /\ pc = "idle"
    /\ event' = "Ignored"
    /\ frame' = NoFrame
    /\ UNCHANGED <<file, buffer, cursor, offset, scrsiz, pc, walk_offset, cur>>

\* main loop: Ctrl-S: editor.save(path)?, then draw with no action
Save ==
    /\ pc = "idle"
    /\ event' = "Save"
    /\ file' = [exists |-> TRUE, bytes |-> Display(buffer)]
    /\ frame' = NoFrame
    /\ UNCHANGED <<buffer, cursor, offset, scrsiz, pc, walk_offset, cur>>

\* main loop: Ctrl-C: break; Screen::fini()
Quit ==
    /\ pc = "idle"
    /\ pc' = "exit"
    /\ event' = "Quit"
    /\ UNCHANGED <<file, buffer, cursor, offset, scrsiz, walk_offset, cur, frame>>

Next ==
    \/ Load
    \/ FirstDraw
    \/ \E a \in KeyActions : KeyEvent(a)
    \/ \E sz \in Sizes : ResizeEvent(sz)
    \/ IgnoredEvent
    \/ Save
    \/ Quit

Spec == Init /\ [][Next]_vars

\* Loading and saving alone, on the texts over every code point: main with
\* no key pressed and no resize between the load and the save
InitLoad == Start(Files(Chars))

NextLoad ==
    \/ Load
    \/ FirstDraw
    \/ IgnoredEvent
    \/ Save
    \/ Quit

SpecLoad == InitLoad /\ [][NextLoad]_vars

\* The layout of the first frame alone, on terminals of up to MaxRows rows:
\* main with no key pressed and no resize after the first draw
TallSizes == {[width |-> w, height |-> h] : w \in 1..MaxWidth, h \in 1..MaxRows}

\* main: Screen::init()?; editor.draw(vec![Action::Resize(Screen::size())])
FirstDrawTall ==
    /\ pc = "screen"
    /\ event' = "Resize"
    /\ \E sz \in TallSizes : Draw("Resize", sz)

NextLayout ==
    \/ Load
    \/ FirstDrawTall
    \/ IgnoredEvent
    \/ Save
    \/ Quit

SpecLayout == Init /\ [][NextLayout]_vars

\* Loading and saving alone, on texts of one long grapheme cluster: a letter
\* followed by up to MaxMarks variation selectors (1 + 4 * MaxMarks bytes),
\* or up to MaxJamo Hangul leading consonants (width 2 * MaxJamo)
LongTexts ==
    {<<"a">> \o [i \in 1..n |-> "V"] : n \in 0..MaxMarks}
        \cup {[i \in 1..n |-> "L"] : n \in 1..MaxJamo}

InitLong == Start({[exists |-> TRUE, bytes |-> as_bytes(t)] : t \in LongTexts})

SpecLong == InitLong /\ [][NextLoad]_vars

\* ------------------------------------------------------------------------
\* Properties
\* ------------------------------------------------------------------------

\* the bytes the last call of draw printed (Print(out) of a full repaint)
Painted == IF frame = "full" THEN Paint(buffer, offset, scrsiz) ELSE <<>>

\* the events that make draw run with an action
DrawEvents == KeyActions \cup {"Resize"}

\* the cell of line c.y that holds column c.x
CellAt(buf, c) ==
    LET sp == span(buf.line[c.y + 1])
    IN  sp[CHOOSE i \in 1..Len(sp) : sp[i].seg.start <= c.x /\ c.x < sp[i].seg.end].seg

\* the start columns of the non-zero-width cells of line c.y that lie left
\* of column c.x: the greatest of them is the cell one stop to the left
CellStartsBefore(buf, c) ==
    LET sp == span(buf.line[c.y + 1])
    IN  {sp[i].seg.start : i \in {j \in 1..Len(sp) :
            /\ sp[j].seg.start < sp[j].seg.end
            /\ sp[j].seg.start < c.x}}

SetMax(S) == CHOOSE m \in S : \A n \in S : n <= m

\* the physical point a walk without movement gives the cursor c
Located(buf, off, scr, c, p) ==
    LET r == Walk(buf, off, c, "Full", scr)
    IN  r.found /\ r.cur = p

\* C1: saving writes back exactly the bytes the buffer was loaded from: a
\* Save of a file that exists leaves the file byte for byte as it was,
\* whatever its terminators and whether or not it ends with one.
C1_RoundTrip ==
    [][(event' = "Save" /\ file.exists) => file' = file]_vars

C1_Witness ==
    /\ event = "Save"
    /\ file.exists
    /\ Len(file.bytes) = 3
    /\ file.bytes[1] = 13
    /\ file.bytes[2] = 10
    /\ file.bytes[3] \notin {10, 13}
    /\ rows(buffer) = 2

\* C2: whenever draw has returned, cursor.x names a navigable position of
\* the cursor's line: cursor.x < cols(cursor.y).
C2_HorizontalBound ==
    pc = "idle" => cursor.x < cols(buffer, cursor.y)

\* C3: cursor.y always names a line of the buffer; Up and Down change it by
\* exactly one when not on the first/last line and not at all there, and no
\* other event changes it.
C3_VerticalBound ==
    /\ [](cursor.y < rows(buffer))
    /\ [][/\ event' = "Up" =>
                cursor'.y = IF 0 < cursor.y THEN cursor.y - 1 ELSE cursor.y
          /\ event' = "Down" =>
                cursor'.y = IF cursor.y + 1 < rows(buffer) THEN cursor.y + 1
                            ELSE cursor.y
          /\ event' \notin {"Up", "Down"} => cursor'.y = cursor.y]_vars

C3_Witness ==
    pc = "idle" /\ event = "Up" /\ cursor.y = 1 /\ rows(buffer) = 3

\* C4: whenever draw has returned, the cursor's line is inside the
\* viewport: offset <= cursor.y < offset + height.
C4_Containment ==
    pc = "idle" => (offset <= cursor.y /\ cursor.y < offset + scrsiz.height)

C4_Witness ==
    /\ pc = "idle"
    /\ event = "Down"
    /\ scrsiz.height = 2
    /\ offset > 0
    /\ cursor.y = offset + 1

\* C5: the restart loop of draw always ends by locating the cursor, and the
\* offset it tries exceeds neither the cursor's line nor the number of lines.
C5_SearchTerminates ==
    /\ pc # "hung"
    /\ walk_offset <= cursor.y
    /\ walk_offset <= rows(buffer)

\* C6: a Right given when the cursor is not on the last navigable position
\* of its line moves cursor.x to the end column of the cell it was on, on
\* the same line, and the point sent to the terminal is that of the cell
\* that starts there.
C6_RightOneCell ==
    [][(/\ pc = "idle" /\ event' = "Right" /\ pc' = "idle"
        /\ cursor.x + 1 < cols(buffer, cursor.y))
       => /\ cursor'.y = cursor.y
          /\ cursor'.x = CellAt(buffer, cursor).end
          /\ Located(buffer, offset', scrsiz, cursor', cur')]_vars

\* C7: a Left given when cursor.x > 0 (on a cell of the line) moves cursor.x to the start column of
\* the previous non-zero-width cell of the same line, and the point sent to
\* the terminal is the one the layout walk gives that cell.
C7_LeftOneCell ==
    [][(/\ pc = "idle" /\ event' = "Left" /\ pc' = "idle"
        /\ 0 < cursor.x /\ cursor.x < cols(buffer, cursor.y))
       => /\ cursor'.y = cursor.y
          /\ CellStartsBefore(buffer, cursor) # {}
          /\ cursor'.x = SetMax(CellStartsBefore(buffer, cursor))
          /\ Located(buffer, offset', scrsiz, cursor', cur')]_vars

\* a command given at the edge it cannot cross
AtEdge(e) ==
    \/ e = "Left" /\ cursor.x = 0
    \/ e = "Right" /\ cursor.x = cols(buffer, cursor.y) - 1
    \/ e = "Up" /\ cursor.y = 0
    \/ e = "Down" /\ cursor.y = rows(buffer) - 1

\* C8: Left at column 0, Right on the last navigable position, Up on the
\* first line and Down on the last line leave cursor and offset as they
\* were; draw only moves the terminal cursor, to the point of the previous
\* frame.
C8_NoOpEdges ==
    [][(pc = "idle" /\ AtEdge(event'))
       => /\ pc' = "idle"
          /\ cursor' = cursor
          /\ offset' = offset
          /\ frame' = "cursor"
          /\ cur' = cur]_vars

\* C9: whenever draw has returned, the point sent to cursor::MoveTo is on
\* the grid: cur.x < width and cur.y < height.
C9_OnGrid ==
    pc = "idle" => (cur.x < scrsiz.width /\ cur.y < scrsiz.height)

\* C10: a draw that returns repaints the whole screen exactly when the
\* action is Full, a Resize changed the screen size, or the offset after the
\* command differs from the offset before it; otherwise it only moves the
\* terminal cursor.
C10_RepaintChoice ==
    [][(event' \in DrawEvents /\ pc' = "idle")
       => /\ frame' \in {"full", "cursor"}
          /\ frame' = "full" <=>
                (event' = "Full" \/ scrsiz' # scrsiz \/ offset' # offset)]_vars

C10_Witness ==
    /\ pc = "idle"
    /\ event = "Down"
    /\ frame = "cursor"
    /\ cursor.y = 2
    /\ offset = 0

LineTop(buf, off, scr, l) == Walk(buf, off, [x |-> 0, y |-> l], "Full", scr)

Ceil(a, b) == (a + b - 1) \div b

\* the row count of the claim for a line of total width W whose cells before
\* the last sum to V, on a screen of width C.  The glitch boundary is read
\* both ways the sentence allows: W a multiple of C, or the content before
\* the last cell (of width V > 0) ending exactly on the last column
WrapRows(W, V, C) ==
    {Ceil(W, C) - (IF glitch THEN 1 ELSE 0) :
        glitch \in {V > 0 /\ W % C = 0, V > 0 /\ V % C = 0}}

\* C12: in the layout from the current offset, every line that starts on the
\* screen and is followed by a line that starts on the screen is given
\* ceil(W / C) rows, or ceil(W / C) - 1 rows at the glitch boundary.
C12_WrapRowCount ==
    pc = "idle" =>
        \A l \in 0..(rows(buffer) - 1) :
            LET top  == LineTop(buffer, offset, scrsiz, l)
                next == LineTop(buffer, offset, scrsiz, l + 1)
                W    == cols(buffer, l)
            IN  (l >= offset /\ l + 1 < rows(buffer) /\ top.found /\ next.found)
                => \E n \in WrapRows(W, W - 1, scrsiz.width) :
                       next.cur.y = top.cur.y + n

\* the text the buffer was built from
LoadedText ==
    IF file.exists /\ pc # "load" THEN read_to_string(file.bytes) ELSE <<>>

\* the number of line terminators of a text: every LF, and every CR that is
\* not followed by LF (CR LF counts once, at its LF)
Terminators(text) ==
    Cardinality({i \in 1..Len(text) :
        \/ text[i] = "LF"
        \/ text[i] = "CR" /\ ~(i < Len(text) /\ text[i + 1] = "LF")})

RECURSIVE SumWidths(_)
SumWidths(sp) == IF sp = <<>> THEN 0 ELSE Head(sp)[2] + SumWidths(Tail(sp))

\* the bytes of the last cell of a line
LastCellBytes(lbr) ==
    LET sp == span(lbr)
    IN  SubSeq(lbr.data, sp[Len(sp)].bin.start + 1, sp[Len(sp)].bin.end)

\* C13: the buffer built from a text has (number of line terminators) + 1
\* lines, at least one; every line but the last ends with its terminator as
\* a cell of width 1, the last line ends with a sentinel cell of no bytes
\* and width 1; cols is the sum of the cells' widths; the empty text gives
\* one line whose only cell is the sentinel, and the first frame then puts
\* the terminal cursor at (0,0).
C13_Construction ==
    LET n == rows(buffer)
    IN  /\ n >= 1
        /\ n = Terminators(LoadedText) + 1
        /\ \A l \in 1..n :
              LET lbr == buffer.line[l]
                  k   == Len(lbr.span)
              IN  /\ k >= 1
                  /\ lbr.span[k][2] = 1
                  /\ lbr.cols = SumWidths(lbr.span)
                  /\ IF l < n
                     THEN LastCellBytes(lbr) \in {<<13, 10>>, <<10>>, <<13>>}
                     ELSE LastCellBytes(lbr) = <<>> /\ lbr.span[k][1] = 0
        /\ LoadedText = <<>> =>
              /\ buffer.line = <<[data |-> <<>>, span |-> <<(<<0, 1>>)>>, cols |-> 1]>>
              /\ (pc = "idle" /\ event = "Resize")
                    => (frame = "full" /\ cur = [x |-> 0, y |-> 0])

RECURSIVE SumBytes(_)
SumBytes(sp) == IF sp = <<>> THEN 0 ELSE Head(sp)[1] + SumBytes(Tail(sp))

\* the cells of a line that hold a cluster of the text: all of them, but
\* for the sentinel of the last line
TextCells(buf, l) ==
    LET k == Len(buf.line[l].span)
    IN  IF l = rows(buf) THEN k - 1 ELSE k

\* C14: in every line the stored byte lengths of the cells sum to the length
\* of the line's data, and the byte ranges of LineBr::span cut the data into
\* the grapheme clusters of the line's text, one per cell, whatever the byte
\* length of a cluster.
C14_ByteLengths ==
    \A l \in 1..rows(buffer) :
        LET lbr == buffer.line[l]
            sp  == span(lbr)
            gs  == graphemes(read_to_string(lbr.data))
        IN  /\ SumBytes(lbr.span) = Len(lbr.data)
            /\ Len(gs) = TextCells(buffer, l)
            /\ \A i \in 1..Len(gs) :
                  SubSeq(lbr.data, sp[i].bin.start + 1, sp[i].bin.end) = as_bytes(gs[i])

\* C15: when the restart loop of draw has taken its offset up to the number
\* of lines (no pass can visit the cursor's line any more, or no cell of the
\* line holds cursor.x), draw aborts and the process ends: it neither goes
\* on searching nor returns to the event loop.
C15_FailFast ==
    walk_offset >= rows(buffer) => pc = "exit"

\* C16: once the file is loaded no event changes the lines of the buffer,
\* and an event that is neither an arrow key nor a resize to another size
\* (Ctrl-S, a key that maps to Action::Full, an event with no action, a
\* resize to the same size) leaves cursor and offset as they were.
C16_Frame ==
    [][/\ pc # "load" => buffer' = buffer
       /\ (\/ event' \in {"Save", "Full", "Ignored"}
           \/ event' = "Resize" /\ scrsiz' = scrsiz)
          => (cursor' = cursor /\ offset' = offset)]_vars

\* the walk of draw, from offset off, for a cursor on the cell i of line l
CellPoint(buf, off, scr, l, i) ==
    Walk(buf, off, [x |-> span(buf.line[l + 1])[i].seg.start, y |-> l], "Full", scr)

\* the cells of non-zero width before the last cell of a line
ContentCells(lbr) ==
    {i \in 1..(Len(lbr.span) - 1) : lbr.span[i][2] > 0}

\* the content of the line (of cells no wider than the screen) ends exactly
\* on the last column of a row
EndsOnLastColumn(lbr, scr) ==
    /\ lbr.cols > 1
    /\ (lbr.cols - 1) % scr.width = 0
    /\ \A i \in ContentCells(lbr) : lbr.span[i][2] <= scr.width

\* C17: in the layout from the current offset, (1) the line after a line
\* whose content ends exactly on the last column of a row starts on the row
\* right below the row of that content's last cell, and (2) the cell that
\* follows exactly `width` cells of width 1 at the start of a line is at
\* column 0 of the row below the line's first row.
C17_GlitchSuppression ==
    pc = "idle" =>
        \A l \in offset..(rows(buffer) - 1) :
            LET lbr == buffer.line[l + 1]
                C   == scrsiz.width
            IN  /\ (l + 1 < rows(buffer) /\ EndsOnLastColumn(lbr, scrsiz))
                   => LET last == CellPoint(buffer, offset, scrsiz, l,
                                            SetMax(ContentCells(lbr)))
                          next == LineTop(buffer, offset, scrsiz, l + 1)
                      IN  (last.found /\ next.found) => next.cur.y = last.cur.y + 1
                /\ (/\ C + 1 <= Len(lbr.span)
                    /\ \A i \in 1..C : lbr.span[i][2] = 1
                    /\ lbr.span[C + 1][2] > 0)
                   => LET top  == LineTop(buffer, offset, scrsiz, l)
                          cell == CellPoint(buffer, offset, scrsiz, l, C + 1)
                      IN  (top.found /\ cell.found)
                          => cell.cur = [x |-> 0, y |-> top.cur.y + 1]

\* laid out from offset off, the cell of cursor c is on a row of the screen
Visible(buf, off, scr, c) ==
    LET r == Walk(buf, off, c, "Full", scr)
    IN  r.found /\ r.cur.y < scr.height

SetMin(S) == CHOOSE m \in S : \A n \in S : m <= n

\* C18: after an arrow key that leaves the cursor on a cell of its line, the
\* offset is the old one if the cursor's cell is
\* on the screen when the buffer is laid out from the old offset; otherwise
\* it is min(old offset, cursor.y) if the cursor is above the viewport, and
\* the smallest offset above the old one from which the cursor's cell is on
\* the screen if it is below.
C18_MinimalOffset ==
    [][(/\ pc = "idle" /\ event' \in {"Up", "Down", "Left", "Right"} /\ pc' = "idle"
        /\ cursor'.x < cols(buffer, cursor'.y))
       => LET above == {o \in (offset + 1)..rows(buffer) :
                            Visible(buffer, o, scrsiz, cursor')}
          IN  IF Visible(buffer, offset, scrsiz, cursor')
              THEN offset' = offset
              ELSE IF cursor'.y < offset
              THEN offset' = Min(offset, cursor'.y)
              ELSE above # {} /\ offset' = SetMin(above)]_vars

\* the points at which "Step2: output" reaches the cell of line c.y that
\* holds column c.x
PaintedAt(buf, off, scr, c) ==
    {m \in PaintPoints(buf, off, scr) :
        /\ m.l = c.y
        /\ LET seg == span(buf.line[m.l + 1])[m.c].seg
           IN  seg.start <= c.x /\ c.x < seg.end}

\* C19: laid out from the current offset, the cursor walk and the paint walk
\* give the same point to every cell both reach; and after a full repaint
\* the point sent to the terminal is the paint walk's point of the cursor's
\* cell, whose bytes (unless it is the last cell of its line, which has
\* none to show) are among the bytes printed.
C19_LocatePaintAgree ==
    pc = "idle" =>
        /\ \A m \in PaintPoints(buffer, offset, scrsiz) :
              LET r == CellPoint(buffer, offset, scrsiz, m.l, m.c)
              IN  (buffer.line[m.l + 1].span[m.c][2] > 0 /\ r.found) => r.cur = m.pos
        /\ (frame = "full" /\ cursor.x < cols(buffer, cursor.y))
              => \E m \in PaintedAt(buffer, offset, scrsiz, cursor) :
                    /\ m.pos = cur
                    /\ m.printed \/ m.c = Len(buffer.line[m.l + 1].span)

\* C20: no subtraction of draw goes below zero.  Every line has a cell and
\* cols >= 1 (cols - 1, span.len() - 1); the offsets draw computes and stores
\* are not negative (cursor.y + 1 - height); and in a pass from any offset,
\* no line of the cursor walk and no cell of the paint walk is given a
\* negative row (the special-case pos.y -= 1), nor is the reported point.
C20_NoUnderflow ==
    /\ \A l \in 1..rows(buffer) :
          buffer.line[l].cols >= 1 /\ Len(buffer.line[l].span) >= 1
    /\ offset >= 0 /\ walk_offset >= 0 /\ cursor.y >= 0 /\ cursor.x >= 0
    /\ cur.y >= 0
    /\ pc \in {"idle", "hung"} =>
          \A o \in 0..(rows(buffer) - 1) :
              /\ StartOffset(o, cursor, scrsiz) >= 0
              /\ \A m \in PaintPoints(buffer, o, scrsiz) : m.pos.y >= 0
              /\ \A l \in o..(rows(buffer) - 1) :
                    LET top == LineTop(buffer, o, scrsiz, l)
                    IN  top.found => top.cur.y >= 0

\* a Down onto a line whose previous line filled exactly one screen row: the
\* special case took the row of the cursor's line from 2 back to 1
C20_Witness ==
    /\ pc = "idle"
    /\ event = "Down"
    /\ offset = 0
    /\ cursor = [x |-> 0, y |-> 1]
    /\ cols(buffer, 0) = scrsiz.width + 1
    /\ cur = [x |-> 0, y |-> 1]

====
